---- MODULE Spec2Model ----
(***************************************************************************)
(* A model of the FIT activity-file reader of notebook-llm-lab:            *)
(*   src/src/notebook_llm_lab/ingestion/fit_reader.py                      *)
(*     _extract_fields_from_message, read_fit, _add_derived_columns,       *)
(*     read_and_clean_fit, load_fit_dir                                    *)
(*   src/scripts/batch_convert_fit.py  main                                *)
(*                                                                         *)
(* Three specifications share the variables:                               *)
(*   SpecExtract  the field extractor applied to one record                *)
(*   SpecDerive   the derived-column pass applied to one table             *)
(*   Spec         load_fit_dir over a directory, then the batch driver     *)
(***************************************************************************)
EXTENDS Integers, Sequences, FiniteSets, TLC

VARIABLES
    \* --- field extractor -------------------------------------------------
    record,      \* the record handed to _extract_fields_from_message
    underlying,  \* the (name -> value) data the record presents
    shape,       \* the shape the data is presented in, or "arbitrary"
    out,         \* what the call returned: [data, raised, consulted]
    seen,        \* shape -> mapping returned for the current underlying data
    epc,         \* "idle" | "ready" | "done"
    \* --- derived-column pass ----------------------------------------------
    dfIn,        \* the table handed to _add_derived_columns
    dfOut,       \* the table it returned
    dpc,         \* "idle" | "ready" | "done" | "raised"
    \* --- directory loader and batch driver --------------------------------
    dir,         \* file name -> content, the input directory
    libMissing,  \* FitFile is None (fitparse could not be imported)
    lpc,         \* "start" | "loop" | "finish" | "main" | "done"
    all_files,   \* the sorted list of matched file names
    idx,         \* position of the loop in all_files
    frames,      \* the per-file tables kept so far
    log,         \* the log records emitted: [level, file]
    combined,    \* the table load_fit_dir returned
    raised,      \* an exception escaped load_fit_dir
    outdirMade,  \* main() created the output directory
    written      \* the output files main() wrote

vars == << record, underlying, shape, out, seen, epc, dfIn, dfOut, dpc,
           dir, libMissing, lpc, all_files, idx, frames, log, combined,
           raised, outdirMade, written >>

extractVars == << record, underlying, shape, out, seen, epc >>
deriveVars  == << dfIn, dfOut, dpc >>
loaderVars  == << dir, libMissing, lpc, all_files, idx, frames, log,
                  combined, raised, outdirMade, written >>

(***************************************************************************)
(* Bounds                                                                  *)
(***************************************************************************)
\* longest get_values() dict / `fields` collection / iteration of a record
MaxItems == 2
\* most rows of a table handed to the derived-column pass
MaxRows == 3
\* most record messages of one file
MaxMsgs == 2

(***************************************************************************)
(* Scalar values.  Every scalar is a record [k, n, d]:                     *)
(*   k = "none"  Python None / NaN / NaT                                   *)
(*   k = "num"   the number n/d (d > 0, lowest terms)                      *)
(*   k = "str"   a non-numeric string (n names which)                      *)
(*   k = "ts"    the datetime at instant n                                 *)
(*   k = "tstr"  a string that parses to the datetime at instant n         *)
(***************************************************************************)
None == [k |-> "none", n |-> 0, d |-> 1]
Num(n) == [k |-> "num", n |-> n, d |-> 1]
Str(n) == [k |-> "str", n |-> n, d |-> 1]
Ts(n) == [k |-> "ts", n |-> n, d |-> 1]
TStr(n) == [k |-> "tstr", n |-> n, d |-> 1]
\* not a value: the exception an arithmetic operation ended in
Raise == [k |-> "raise", n |-> 0, d |-> 1]

Abs(x) == IF x < 0 THEN -x ELSE x

RECURSIVE Gcd(_, _)
Gcd(a, b) == IF b = 0 THEN a ELSE Gcd(b, a % b)

\* the number n/d in lowest terms with a positive denominator (d # 0)
Rat(n, d) ==
    LET g == Gcd(Abs(n), Abs(d))
        s == IF d < 0 THEN -1 ELSE 1
    IN  [k |-> "num", n |-> (s * n) \div g, d |-> (s * d) \div g]

\* a / b for numbers a, b: ZeroDivisionError when b is zero
RatDiv(a, b) ==
    IF b.n = 0 THEN Raise
    ELSE LET g1 == Gcd(Abs(a.n), Abs(b.n))
             g2 == Gcd(Abs(a.d), Abs(b.d))
         IN  Rat((a.n \div g1) * (b.d \div g2),
                 (a.d \div g2) * (b.n \div g1))

\* a * b for numbers a, b
RatMul(a, b) ==
    LET g1 == Gcd(Abs(a.n), Abs(b.d))
        g2 == Gcd(Abs(b.n), Abs(a.d))
    IN  Rat((a.n \div g1) * (b.n \div g2), (a.d \div g2) * (b.d \div g1))

(***************************************************************************)
(* Mappings (Python dicts compared by ==: insertion order does not count)  *)
(***************************************************************************)
EmptyMap == << >>

Put(data, key, v) ==
    [x \in (DOMAIN data) \cup {key} |-> IF x = key THEN v ELSE data[x]]

(***************************************************************************)
(* Records as the external parsing library may hand them over.             *)
(*                                                                         *)
(* An element of a collection is [key, obj, name, value]:                  *)
(*   key    its key when the collection is a dict                          *)
(*   obj    TRUE: a field object (has a `value` attribute)                 *)
(*          FALSE: a plain value, which is `value` itself                  *)
(*   name   the field object's `name` attribute, NoAttr when it has none   *)
(* A record is [gv, fields, iter]:                                         *)
(*   gv      get_values: "absent" | "raises" | "nondict" | "dict"          *)
(*   fields  the `fields` attribute: "absent" | "dict" | "iter"            *)
(*   iter    what iterating the record yields                              *)
(* `fails` on a collection: consuming it raises once its items are through *)
(* (a generator that raises, an unhashable name, a non-iterable object     *)
(* when there are no items).                                               *)
(***************************************************************************)
NoAttr == "<no attribute>"

Elem(key, obj, name, value) ==
    [key |-> key, obj |-> obj, name |-> name, value |-> value]

Coll(kind, items, fails) == [kind |-> kind, items |-> items, fails |-> fails]

\* getattr(f, "name", None) and the truth test `if name`
NameAttr(f) == IF f.obj THEN f.name ELSE NoAttr
Truthy(name) == name # NoAttr /\ name # ""
\* getattr(f, "value", None)
ValueAttr(f) == IF f.obj THEN f.value ELSE None

(***************************************************************************)
(* _extract_fields_from_message                                            *)
(***************************************************************************)
\* 1) the loop over vals.items(): a value that is None is not stored
RECURSIVE GetValuesLoop(_, _)
GetValuesLoop(items, data) ==
    IF items = << >> THEN data
    ELSE LET e == Head(items)
         IN  GetValuesLoop(Tail(items),
                           IF e.value # None THEN Put(data, e.key, e.value)
                           ELSE data)

\* 1) get_values(): returns when it gave a dict that left data non-empty;
\*    a missing, raising or non-dict get_values falls through
Strategy1(rec, data) ==
    IF rec.gv.kind = "dict"
    THEN LET d == GetValuesLoop(rec.gv.items, data)
         IN  [data |-> d, ret |-> DOMAIN d # {}]
    ELSE [data |-> data, ret |-> FALSE]

\* 2) one entry of a `fields` dict with the `if v is None: continue` and
\*    the `if val is not None` left out
FieldsDictStepKeepNone(e, data) ==
    IF ~e.obj
    THEN Put(data, e.key, e.value)
    ELSE Put(data, IF e.name = NoAttr THEN e.key ELSE e.name, e.value)

\* 2) one entry k, v of a `fields` dict
FieldsDictStep(e, data) ==
    IF ~e.obj
    THEN IF e.value = None THEN data ELSE Put(data, e.key, e.value)
    ELSE IF e.value # None
         THEN Put(data, IF e.name = NoAttr THEN e.key ELSE e.name, e.value)
         ELSE data

\* 2) and 3): one item f of an iterable of field objects
FieldObjStep(f, data) ==
    IF Truthy(NameAttr(f)) /\ ValueAttr(f) # None
    THEN Put(data, NameAttr(f), ValueAttr(f))
    ELSE data

RECURSIVE FieldsLoop(_, _, _)
FieldsLoop(kind, items, data) ==
    IF items = << >> THEN data
    ELSE FieldsLoop(kind, Tail(items),
                    IF kind = "dict" THEN FieldsDictStep(Head(items), data)
                    ELSE FieldObjStep(Head(items), data))

\* 2) record.fields: an exception is caught and what was stored stays in data
Strategy2(rec, data) ==
    IF rec.fields.kind = "absent"
    THEN [data |-> data, ret |-> FALSE]
    ELSE LET d == FieldsLoop(rec.fields.kind, rec.fields.items, data)
         IN  IF rec.fields.fails
             THEN [data |-> d, ret |-> FALSE]
             ELSE [data |-> d, ret |-> DOMAIN d # {}]

\* 3) with the try/except left out: the exception escapes
Strategy3NoCatch(rec, data) ==
    LET d == FieldsLoop("iter", rec.iter.items, data)
    IN  IF rec.iter.fails
        THEN [data |-> EmptyMap, raised |-> TRUE]
        ELSE [data |-> d, raised |-> FALSE]

\* 3) iterating the record: returns data, or {} when the iteration raises
Strategy3(rec, data) ==
    LET d == FieldsLoop("iter", rec.iter.items, data)
    IN  IF rec.iter.fails
        THEN [data |-> EmptyMap, raised |-> FALSE]
        ELSE [data |-> d, raised |-> FALSE]

\* the call: the mapping returned, whether an exception escaped, and the
\* strategies it went through
extract_fields_from_message(rec) ==
    LET s1 == Strategy1(rec, EmptyMap)
    IN  IF s1.ret
        THEN [data |-> s1.data, raised |-> FALSE, consulted |-> {"get_values"}]
        ELSE LET s2 == Strategy2(rec, s1.data)
             IN  IF s2.ret
                 THEN [data |-> s2.data, raised |-> FALSE,
                       consulted |-> {"get_values", "fields"}]
                 ELSE LET s3 == Strategy3(rec, s2.data)
                      IN  [data |-> s3.data, raised |-> s3.raised,
                           consulted |-> {"get_values", "fields", "iter"}]

(***************************************************************************)
(* Inputs of the extractor                                                 *)
(***************************************************************************)
NotIterable == Coll("iter", << >>, TRUE)
NoFields == Coll("absent", << >>, FALSE)
NoGetValues == Coll("absent", << >>, FALSE)

\* the record of test_missing_values_return_empty: class Rec: pass
BareRecord == [gv |-> NoGetValues, fields |-> NoFields, iter |-> NotIterable]

\* the data a record may carry: field names (the empty name among them) to a
\* value or None
DataNames == {"", "distance", "speed"}
DataNameOrder == << "", "distance", "speed" >>
DataValues == {None, Num(0), Num(5)}
DataMaps == UNION {[S -> DataValues] : S \in SUBSET DataNames}

Shapes == {"get_values", "fields_dict_objs", "fields_dict_plain",
           "fields_iter", "iterable"}

\* the names of m in a fixed order, and m as a sequence of elements
Ordered(m) == SelectSeq(DataNameOrder, LAMBDA x : x \in DOMAIN m)
AsObjs(m) ==
    LET o == Ordered(m)
    IN  [i \in 1..Len(o) |-> Elem(o[i], TRUE, o[i], m[o[i]])]
AsPlain(m) ==
    LET o == Ordered(m)
    IN  [i \in 1..Len(o) |-> Elem(o[i], FALSE, NoAttr, m[o[i]])]

\* the record that presents data m in shape s (the shapes of the tests)
Present(m, s) ==
    CASE s = "get_values" ->
           [gv |-> Coll("dict", AsPlain(m), FALSE), fields |-> NoFields,
            iter |-> NotIterable]
      [] s = "fields_dict_objs" ->
           [gv |-> NoGetValues, fields |-> Coll("dict", AsObjs(m), FALSE),
            iter |-> NotIterable]
      [] s = "fields_dict_plain" ->
           [gv |-> NoGetValues, fields |-> Coll("dict", AsPlain(m), FALSE),
            iter |-> NotIterable]
      [] s = "fields_iter" ->
           [gv |-> NoGetValues, fields |-> Coll("iter", AsObjs(m), FALSE),
            iter |-> NotIterable]
      [] s = "iterable" ->
           [gv |-> NoGetValues, fields |-> NoFields,
            iter |-> Coll("iter", AsObjs(m), FALSE)]

\* sequences of at most n elements of S
SeqsUpTo(S, n) == UNION {[1..l -> S] : l \in 0..n}

DistinctKeys(items) ==
    \A i, j \in 1..Len(items) : i # j => items[i].key # items[j].key

\* what get_values() may return in a dict
GvPool == {Elem("a", FALSE, NoAttr, Num(1)),
           Elem("b", FALSE, NoAttr, None),
           Elem("", FALSE, NoAttr, Num(2))}
\* what `fields` may hold
FieldsPool == {Elem("a", TRUE, "a", Num(1)),
               Elem("b", TRUE, NoAttr, None),
               Elem("b", FALSE, NoAttr, Num(2)),
               Elem("c", FALSE, NoAttr, None)}
\* what iterating the record may yield
IterPool == {Elem("", TRUE, "b", Num(2)),
             Elem("", TRUE, "", Num(1)),
             Elem("", TRUE, "a", None)}

GvChoices ==
    {Coll(kd, << >>, FALSE) : kd \in {"absent", "raises", "nondict"}}
    \cup {Coll("dict", s, FALSE) :
            s \in {t \in SeqsUpTo(GvPool, MaxItems) : DistinctKeys(t)}}
FieldsChoices ==
    {NoFields}
    \cup {Coll("dict", s, f) :
            s \in {t \in SeqsUpTo(FieldsPool, MaxItems) : DistinctKeys(t)},
            f \in BOOLEAN}
    \cup {Coll("iter", s, f) :
            s \in SeqsUpTo(FieldsPool, MaxItems), f \in BOOLEAN}
IterChoices ==
    {Coll("iter", s, f) : s \in SeqsUpTo(IterPool, MaxItems), f \in BOOLEAN}

(***************************************************************************)
(* SpecExtract: records are presented and extracted, one call at a time    *)
(***************************************************************************)
NoOut == [data |-> EmptyMap, raised |-> FALSE, consulted |-> {}]

InitExtractVars ==
    /\ record = BareRecord
    /\ underlying = EmptyMap
    /\ shape = "arbitrary"
    /\ out = NoOut
    /\ seen = EmptyMap
    /\ epc = "idle"

\* new underlying data: nothing has been extracted from it yet
NewData(m) ==
    /\ epc = "idle"
    /\ underlying' = m
    /\ seen' = EmptyMap
    /\ UNCHANGED << record, shape, out, epc >>

\* the current data presented in shape s
PresentShape(s) ==
    /\ epc = "idle"
    /\ s \notin DOMAIN seen
    /\ record' = Present(underlying, s)
    /\ shape' = s
    /\ epc' = "ready"
    /\ UNCHANGED << underlying, out, seen >>

\* any record the library may produce
PresentArbitrary ==
    /\ epc = "idle"
    /\ underlying = EmptyMap
    /\ seen = EmptyMap
    /\ \E gv \in GvChoices, fields \in FieldsChoices, iter \in IterChoices :
           record' = [gv |-> gv, fields |-> fields, iter |-> iter]
    /\ shape' = "arbitrary"
    /\ epc' = "ready"
    /\ UNCHANGED << underlying, out, seen >>

\* the call _extract_fields_from_message(record)
Extract ==
    /\ epc = "ready"
    /\ out' = extract_fields_from_message(record)
    /\ seen' = IF shape = "arbitrary" THEN seen ELSE Put(seen, shape, out'.data)
    /\ epc' = "done"
    /\ UNCHANGED << record, underlying, shape >>

\* the caller is through with the result
NextCall ==
    /\ epc = "done"
    /\ epc' = "idle"
    /\ record' = BareRecord
    /\ shape' = "arbitrary"
    /\ out' = NoOut
    /\ UNCHANGED << underlying, seen >>

(***************************************************************************)
(* Properties of the extractor, stated of SpecExtract                       *)
(***************************************************************************)
\* C2: for any (field name, value) data, the extractor returns the same
\* mapping whichever shape presents it: get_values() dict, `fields` dict of
\* field objects or of plain values, `fields` iterable, iterable record.
C2_ShapesAgree ==
    \A s1 \in DOMAIN seen, s2 \in DOMAIN seen : seen[s1] = seen[s2]

\* what remains of C2: data whose names are all non-empty is extracted alike
\* from every shape (the empty name is kept by the dict shapes only)
C2_NamedShapesAgree ==
    ("" \notin DOMAIN underlying) => C2_ShapesAgree

\* C3: no key of the returned mapping maps to None, whichever strategies
\* ran, failed or yielded nothing on the way.
C3_NoNullValue ==
    epc = "done" => \A key \in DOMAIN out.data : out.data[key] # None

\* C3's case: `fields` held a None-valued entry and still produced the result
C3_Witness ==
    /\ epc = "done"
    /\ DOMAIN out.data # {}
    /\ out.consulted = {"get_values", "fields"}
    /\ \E i \in 1..Len(record.fields.items) :
           record.fields.items[i].value = None

\* a record none of whose collections holds a non-None value
NoUsableFields(rec) ==
    /\ \A i \in 1..Len(rec.gv.items) : rec.gv.items[i].value = None
    /\ \A i \in 1..Len(rec.fields.items) : rec.fields.items[i].value = None
    /\ \A i \in 1..Len(rec.iter.items) : rec.iter.items[i].value = None

\* C4: the extractor never raises, whatever get_values(), `fields` and the
\* iteration of the record raise, and a record with no usable fields yields
\* the empty mapping.
C4_NeverRaises ==
    epc = "done" =>
        /\ ~out.raised
        /\ NoUsableFields(record) => out.data = EmptyMap

\* C4's case: all three strategies raised
C4_Witness ==
    /\ epc = "done"
    /\ record.gv.kind = "raises"
    /\ record.fields.kind # "absent" /\ record.fields.fails
    /\ record.fields.items # << >>
    /\ record.iter.fails

\* the mapping of the first strategy, each run on its own from an empty
\* mapping, that neither failed nor yielded nothing
OneStrategyResult(rec) ==
    LET s1 == Strategy1(rec, EmptyMap)
        s2 == Strategy2(rec, EmptyMap)
        s3 == Strategy3(rec, EmptyMap)
    IN  IF s1.ret THEN s1.data ELSE IF s2.ret THEN s2.data ELSE s3.data

\* C10: the mapping returned is the result of exactly one strategy, the first
\* of get_values() -> fields -> iteration to yield a non-empty result; after a
\* non-empty get_values() dict nothing else is consulted, and entries of a
\* strategy that failed or yielded nothing are not in a later one's mapping.
C10_OneStrategy ==
    epc = "done" =>
        /\ out.data = OneStrategyResult(record)
        /\ Strategy1(record, EmptyMap).ret => out.consulted = {"get_values"}

(***************************************************************************)
(* Tables (pandas DataFrames).                                             *)
(* A table is [cols, rows]; a row is [cells, index, run_id, src, pos]:     *)
(*   cells   column -> scalar, None for a missing cell                     *)
(*   index   the row's index label                                         *)
(*   run_id  the run_id column (a string), << >> while the table has none  *)
(*   src, pos  where the row came from: file name and message number       *)
(*             (kept for the statements below, not read by the operations) *)
(***************************************************************************)
EmptyTable == [cols |-> {}, rows |-> << >>]

\* DataFrame.empty: no rows, or no columns
IsEmpty(df) == df.rows = << >> \/ df.cols = {}

\* pd.DataFrame.from_records(rows): the columns are the union of the keys,
\* a key a row lacks is a null cell, the index is 0..n-1
from_records(rows) ==
    LET cols == UNION {DOMAIN rows[i].data : i \in 1..Len(rows)}
    IN  [cols |-> cols,
         rows |-> [i \in 1..Len(rows) |->
                     [cells |-> [c \in cols |->
                                   IF c \in DOMAIN rows[i].data
                                   THEN rows[i].data[c] ELSE None],
                      index |-> i - 1,
                      run_id |-> << >>,
                      src |-> rows[i].src,
                      pos |-> rows[i].pos]]]

\* df[name], the column as a sequence, and df[name] = col
Column(df, name) == [i \in 1..Len(df.rows) |-> df.rows[i].cells[name]]
SetColumn(df, name, col) ==
    [cols |-> df.cols \cup {name},
     rows |-> [i \in 1..Len(df.rows) |->
                 [df.rows[i] EXCEPT !.cells = Put(df.rows[i].cells, name,
                                                  col[i])]]]

(***************************************************************************)
(* _add_derived_columns                                                    *)
(***************************************************************************)
\* 180 / (2**31), in lowest terms
SEMICIRCLE_TO_DEG == [k |-> "num", n |-> 45, d |-> 536870912]

\* pd.to_datetime(v, errors="coerce") of a datetime, a date string, a string
\* that is no date, or a null
ToDatetime(v) ==
    IF v.k = "ts" THEN v ELSE IF v.k = "tstr" THEN Ts(v.n) ELSE None

\* v / 1000.0 and v * SEMICIRCLE_TO_DEG of a number or a null
DistanceKm(v) == IF v.k = "num" THEN RatDiv(v, Num(1000)) ELSE None
ToDegrees(v) == IF v.k = "num" THEN RatMul(v, SEMICIRCLE_TO_DEG) ELSE None

\* the lambda with `v >= 0` for `v > 0`: a speed of zero is divided by
PaceNonNegative(v) ==
    IF v.k = "num" /\ v.n >= 0
    THEN LET q == RatDiv(Num(1000), v)
         IN  IF q = Raise THEN Raise ELSE RatDiv(q, Num(60))
    ELSE None

\* the lambda of pace_min_per_km:
\*   (1000.0 / v) / 60.0 if isinstance(v, (int, float)) and v > 0 else None
Pace(v) ==
    IF v.k = "num" /\ v.n > 0
    THEN RatDiv(RatDiv(Num(1000), v), Num(60))
    ELSE None

\* df.dropna(subset=["timestamp"])
DropNaTimestamp(rows) ==
    SelectSeq(rows, LAMBDA r : r.cells["timestamp"] # None)

\* .sort_values("timestamp"): every order the default (unstable) sort may
\* leave the rows in
SortValues(rows) ==
    LET n == Len(rows)
    IN  {[i \in 1..n |-> rows[p[i]]] :
           p \in {q \in Permutations(1..n) :
                    \A i \in 1..n, j \in 1..n :
                        i < j => rows[q[i]].cells["timestamp"].n
                                   <= rows[q[j]].cells["timestamp"].n}}

\* the index left as dropna and sort_values made it
KeepIndex(rows) == rows

\* .reset_index(drop=True)
ResetIndex(rows) == [i \in 1..Len(rows) |-> [rows[i] EXCEPT !.index = i - 1]]

\* the column rules, up to the final dropna / sort / reset
DerivedColumns(df) ==
    LET n == Len(df.rows)
        d1 == IF "timestamp" \in df.cols
              THEN SetColumn(df, "timestamp",
                       [i \in 1..n |-> ToDatetime(Column(df, "timestamp")[i])])
              ELSE df
        d2 == IF "distance" \in d1.cols
              THEN SetColumn(d1, "distance_km",
                       [i \in 1..n |-> DistanceKm(Column(d1, "distance")[i])])
              ELSE d1
        d3 == IF "speed" \in d2.cols
              THEN SetColumn(d2, "pace_min_per_km",
                       [i \in 1..n |-> Pace(Column(d2, "speed")[i])])
              ELSE d2
        d4 == IF "enhanced_altitude" \in d3.cols /\ "altitude" \notin d3.cols
              THEN SetColumn(d3, "altitude", Column(d3, "enhanced_altitude"))
              ELSE d3
        d5 == IF "position_lat" \in d4.cols
              THEN SetColumn(d4, "lat",
                       [i \in 1..n |-> ToDegrees(Column(d4, "position_lat")[i])])
              ELSE d4
    IN  IF "position_long" \in d5.cols
        THEN SetColumn(d5, "lon",
                 [i \in 1..n |-> ToDegrees(Column(d5, "position_long")[i])])
        ELSE d5

\* _add_derived_columns(df) raises: one of its column computations did
PassRaises(df) ==
    /\ ~IsEmpty(df)
    /\ \E i \in 1..Len(df.rows) :
           \E c \in DerivedColumns(df).cols :
               DerivedColumns(df).rows[i].cells[c] = Raise

\* the tables _add_derived_columns(df) may return (when it does not raise)
add_derived_columns(df) ==
    IF IsEmpty(df) THEN {df}
    ELSE LET d == DerivedColumns(df)
         IN  IF "timestamp" \in d.cols
             THEN {[cols |-> d.cols, rows |-> ResetIndex(s)] :
                     s \in SortValues(DropNaTimestamp(d.rows))}
             ELSE {d}

(***************************************************************************)
(* SpecDerive: the derived-column pass applied to one table                *)
(***************************************************************************)
RawRow(data, src, pos) == [data |-> data, src |-> src, pos |-> pos]

\* the Extracted Rows a table is built from
DeriveRowPool ==
    { ("timestamp" :> Ts(2)) @@ ("speed" :> Num(2)) @@ ("distance" :> Num(1000)),
      ("timestamp" :> Ts(1)) @@ ("speed" :> Num(0)) @@ ("distance" :> Num(2000)),
      ("timestamp" :> TStr(1)) @@ ("speed" :> Num(4)),
      ("timestamp" :> Str(1)) @@ ("speed" :> Str(2)),
      ("speed" :> Num(-1)) @@ ("distance" :> Num(500)),
      ("speed" :> Rat(5, 2)) @@ ("position_lat" :> Num(536870912))
          @@ ("position_long" :> Num(-268435456))
          @@ ("enhanced_altitude" :> Num(100)),
      ("timestamp" :> Ts(3)) @@ ("altitude" :> Num(7))
          @@ ("enhanced_altitude" :> Num(9)),
      ("distance" :> Num(1500)) }

DeriveInputs ==
    {from_records([i \in 1..Len(rs) |-> RawRow(rs[i], << >>, i)]) :
       rs \in SeqsUpTo(DeriveRowPool, MaxRows)}

InitDeriveVars ==
    /\ dfIn = EmptyTable
    /\ dfOut = EmptyTable
    /\ dpc = "idle"

\* a table is handed to the pass
DeriveInput ==
    /\ dpc = "idle"
    /\ dfIn' \in DeriveInputs
    /\ dfOut' = EmptyTable
    /\ dpc' = "ready"

\* the call _add_derived_columns(dfIn)
Derive ==
    /\ dpc = "ready"
    /\ IF PassRaises(dfIn)
       THEN dfOut' = EmptyTable /\ dpc' = "raised"
       ELSE dfOut' \in add_derived_columns(dfIn) /\ dpc' = "done"
    /\ UNCHANGED dfIn

(***************************************************************************)
(* Properties of the derived-column pass, stated of SpecDerive             *)
(***************************************************************************)
\* C6: when the input table has a timestamp column, the table returned has
\* no null or unparsed timestamp, its rows are in non-decreasing timestamp
\* order, and its index is 0..n-1 without gaps.
C6_SortedNoNullPositional ==
    (dpc = "done" /\ "timestamp" \in dfIn.cols) =>
        LET rows == dfOut.rows
        IN  /\ \A i \in 1..Len(rows) : rows[i].cells["timestamp"].k = "ts"
            /\ \A i \in 1..Len(rows), j \in 1..Len(rows) :
                   i < j => rows[i].cells["timestamp"].n
                              <= rows[j].cells["timestamp"].n
            /\ \A i \in 1..Len(rows) : rows[i].index = i - 1

\* C6's case: a row was dropped for its timestamp and two kept rows changed
\* places
C6_Witness ==
    /\ dpc = "done"
    /\ "timestamp" \in dfIn.cols
    /\ Len(dfOut.rows) >= 2
    /\ Len(dfOut.rows) < Len(dfIn.rows)
    /\ dfOut.rows[1].pos > dfOut.rows[2].pos

\* C7: with a speed column, pace_min_per_km is null where speed is zero,
\* negative, null or non-numeric and (1000/speed)/60 elsewhere, and the pass
\* returns a table for every speed value.
C7_PaceOfSpeed ==
    /\ dpc # "raised"
    /\ (dpc = "done" /\ "speed" \in dfIn.cols) =>
        /\ "pace_min_per_km" \in dfOut.cols
        /\ \A i \in 1..Len(dfOut.rows) :
               LET v == dfOut.rows[i].cells["speed"]
                   pace == dfOut.rows[i].cells["pace_min_per_km"]
               IN  IF v.k = "num" /\ v.n > 0
                   THEN /\ pace.k = "num"
                        /\ pace.n * 60 * v.n = 1000 * v.d * pace.d
                   ELSE pace = None

\* C7's case: one table with a positive, a non-positive and a non-numeric
\* or null speed
C7_Witness ==
    /\ dpc = "done"
    /\ "speed" \in dfIn.cols
    /\ \E i \in 1..Len(dfOut.rows) :
           dfOut.rows[i].cells["speed"].k = "num"
           /\ dfOut.rows[i].cells["speed"].n > 0
    /\ \E i \in 1..Len(dfOut.rows) :
           dfOut.rows[i].cells["speed"].k = "num"
           /\ dfOut.rows[i].cells["speed"].n <= 0
    /\ \E i \in 1..Len(dfOut.rows) :
           dfOut.rows[i].cells["speed"].k # "num"

(***************************************************************************)
(* File names: strings as sequences of character codes, so that suffix,    *)
(* stem, glob and sorted() are computed on the characters.                 *)
(***************************************************************************)
Dot == 46
DotFit == << 46, 102, 105, 116 >>               \* ".fit"
DotGz == << 46, 103, 122 >>                     \* ".gz"
DotFitDotGz == DotFit \o DotGz                  \* ".fit.gz"

Name_a_fit_gz == << 97 >> \o DotFitDotGz        \* "a.fit.gz"
Name_b_fit == << 98 >> \o DotFit                \* "b.fit"
Name_Z_fit == << 90 >> \o DotFit                \* "Z.fit"
Name_a_FIT == << 97, 46, 70, 73, 84 >>          \* "a.FIT"

EndsWith(name, suffix) ==
    /\ Len(name) >= Len(suffix)
    /\ SubSeq(name, Len(name) - Len(suffix) + 1, Len(name)) = suffix

\* str.rfind("."): the position of the last dot, 0 when there is none
LastDot(name) ==
    LET dots == {i \in 1..Len(name) : name[i] = Dot}
    IN  IF dots = {} THEN 0 ELSE CHOOSE i \in dots : \A j \in dots : j <= i

\* PurePath.suffix and PurePath.stem: split at the last dot, unless the name
\* starts or ends with it
Suffix(name) ==
    LET i == LastDot(name)
    IN  IF 1 < i /\ i < Len(name) THEN SubSeq(name, i, Len(name)) ELSE << >>
Stem(name) ==
    LET i == LastDot(name)
    IN  IF 1 < i /\ i < Len(name) THEN SubSeq(name, 1, i - 1) ELSE name

\* a < b for strings: by the first character that differs, a proper prefix
\* first
RECURSIVE StrLess(_, _)
StrLess(a, b) ==
    IF b = << >> THEN FALSE
    ELSE IF a = << >> THEN TRUE
    ELSE IF Head(a) # Head(b) THEN Head(a) < Head(b)
    ELSE StrLess(Tail(a), Tail(b))

\* the names in the order the directory happens to list them (here: last
\* first), as a list that was never sorted would be
RECURSIVE Unsorted(_)
Unsorted(S) ==
    IF S = {} THEN << >>
    ELSE LET m == CHOOSE x \in S : \A y \in S : ~StrLess(x, y)
         IN  << m >> \o Unsorted(S \ {m})

\* sorted(...) of a collection of distinct names
RECURSIVE Sorted(_)
Sorted(S) ==
    IF S = {} THEN << >>
    ELSE LET m == CHOOSE x \in S : \A y \in S : ~StrLess(y, x)
         IN  << m >> \o Sorted(S \ {m})

\* dirpath.glob("*" + suffix): case-sensitive, no recursion
Glob(d, suffix) == {name \in DOMAIN d : EndsWith(name, suffix)}

(***************************************************************************)
(* Files.  A file's content is [enc, msgs, truncated]:                     *)
(*   enc        "plain" FIT bytes, "gzip"-compressed FIT bytes, "garbage"  *)
(*   msgs       its record messages, each [isNone, rec]                    *)
(*   truncated  the decoder raises after the last message                  *)
(***************************************************************************)
Content(enc, msgs, truncated) ==
    [enc |-> enc, msgs |-> msgs, truncated |-> truncated]

Msg(rec) == [isNone |-> FALSE, rec |-> rec]
NoneMsg == [isNone |-> TRUE, rec |-> BareRecord]

\* a message as fitparse gives it: get_values() returns the dict m
GvMsg(items) ==
    Msg([gv |-> Coll("dict", items, FALSE), fields |-> NoFields,
         iter |-> NotIterable])

LogRecord(level, file) == [level |-> level, file |-> file]

(***************************************************************************)
(* read_fit                                                                *)
(***************************************************************************)
\* the loop over fitfile.get_messages("record"): a None message is skipped,
\* an empty extraction is not appended
RECURSIVE ReadRows(_, _, _)
ReadRows(name, msgs, pos) ==
    IF msgs = << >> THEN << >>
    ELSE LET m == Head(msgs)
             fields == extract_fields_from_message(m.rec).data
             rest == ReadRows(name, Tail(msgs), pos + 1)
         IN  IF m.isNone \/ DOMAIN fields = {} THEN rest
             ELSE << RawRow(fields, name, pos) >> \o rest

\* gzip.open(...).read() and FitFile(...) both succeed
Decodes(name, content) ==
    IF Suffix(name) = DotGz THEN content.enc = "gzip"
    ELSE content.enc = "plain"

\* read_fit without its outer try/except: the exception escapes
read_fit_uncaught(name, content, missing) ==
    IF missing
    THEN [df |-> EmptyTable, log |-> << LogRecord("error", << >>) >>,
          raised |-> FALSE]
    ELSE IF ~Decodes(name, content) \/ content.truncated
    THEN [df |-> EmptyTable, log |-> << >>, raised |-> TRUE]
    ELSE LET rows == ReadRows(name, content.msgs, 1)
         IN  IF rows = << >>
             THEN [df |-> EmptyTable,
                   log |-> << LogRecord("warning", name) >>,
                   raised |-> FALSE]
             ELSE [df |-> from_records(rows), log |-> << >>,
                   raised |-> FALSE]

\* read_fit(path): the table, the log records, whether it raised
read_fit(name, content, missing) ==
    IF missing
    THEN [df |-> EmptyTable, log |-> << LogRecord("error", << >>) >>,
          raised |-> FALSE]
    ELSE IF ~Decodes(name, content) \/ content.truncated
    THEN [df |-> EmptyTable, log |-> << LogRecord("exception", name) >>,
          raised |-> FALSE]
    ELSE LET rows == ReadRows(name, content.msgs, 1)
         IN  IF rows = << >>
             THEN [df |-> EmptyTable,
                   log |-> << LogRecord("warning", name) >>,
                   raised |-> FALSE]
             ELSE [df |-> from_records(rows), log |-> << >>,
                   raised |-> FALSE]

(***************************************************************************)
(* load_fit_dir and main                                                   *)
(***************************************************************************)
\* df["run_id"] = run_id
TagRunId(df, run_id) ==
    [cols |-> df.cols \cup {"run_id"},
     rows |-> [i \in 1..Len(df.rows) |->
                 [df.rows[i] EXCEPT !.run_id = run_id]]]

RECURSIVE ConcatRows(_)
ConcatRows(fs) ==
    IF fs = << >> THEN << >> ELSE Head(fs).rows \o ConcatRows(Tail(fs))

\* pd.concat(frames, ignore_index=True): the rows in list order, the columns
\* united (a cell a frame lacks is null), the index 0..n-1
Concat(fs) ==
    LET cols == UNION {fs[i].cols : i \in 1..Len(fs)}
        rows == ConcatRows(fs)
    IN  [cols |-> cols,
         rows |-> [i \in 1..Len(rows) |->
                     [rows[i] EXCEPT
                        !.cells = [c \in cols \ {"run_id"} |->
                                     IF c \in DOMAIN rows[i].cells
                                     THEN rows[i].cells[c] ELSE None],
                        !.index = i - 1]]]

\* main() writing both files whatever the table holds
SavedFilesAlways(df) == {"strava_runs.parquet", "strava_runs.csv"}

\* main(): what it writes for the table load_fit_dir returned
SavedFiles(df) ==
    IF IsEmpty(df) THEN {}
    ELSE {"strava_runs.parquet", "strava_runs.csv"}

(***************************************************************************)
(* Spec: main() of the batch driver, running load_fit_dir on a directory   *)
(***************************************************************************)
\* the record messages a file may hold
MsgPool ==
    { GvMsg(<< Elem("timestamp", FALSE, NoAttr, Ts(2)),
               Elem("speed", FALSE, NoAttr, Num(2)) >>),
      GvMsg(<< Elem("timestamp", FALSE, NoAttr, Ts(1)),
               Elem("distance", FALSE, NoAttr, Num(1000)) >>),
      GvMsg(<< Elem("timestamp", FALSE, NoAttr, Str(1)),
               Elem("speed", FALSE, NoAttr, Num(0)) >>),
      NoneMsg }

OneMsg == << GvMsg(<< Elem("timestamp", FALSE, NoAttr, Ts(2)) >>) >>

Garbage == Content("garbage", << >>, FALSE)

\* the encoding read_fit expects under a name
ExpectedEnc(name) == IF EndsWith(name, DotGz) THEN "gzip" ELSE "plain"
OtherEnc(name) == IF EndsWith(name, DotGz) THEN "plain" ELSE "gzip"

\* what the file of that name may hold: any messages in the encoding its
\* name promises, or bytes that do not decode (garbage, the other encoding,
\* a file cut off after its first message)
Contents(name) ==
    {Content(ExpectedEnc(name), msgs, FALSE) :
       msgs \in SeqsUpTo(MsgPool, MaxMsgs)}
    \cup {Garbage, Content(OtherEnc(name), OneMsg, FALSE),
          Content(ExpectedEnc(name), OneMsg, TRUE)}

\* files whose name matters more than what they hold: two records without
\* a timestamp
SmallContents ==
    {Content("plain",
             << GvMsg(<< Elem("speed", FALSE, NoAttr, Num(4)),
                         Elem("distance", FALSE, NoAttr, None) >>),
                GvMsg(<< Elem("speed", FALSE, NoAttr, Num(2)) >>) >>,
             FALSE)}

\* a name the directory does not hold
Absent == Content("absent", << >>, FALSE)

\* the directory holding, of the four names, those whose content is given
MkDir(c1, c2, c3, c4) ==
    LET all == (Name_a_fit_gz :> c1) @@ (Name_b_fit :> c2)
               @@ (Name_Z_fit :> c3) @@ (Name_a_FIT :> c4)
    IN  [name \in {x \in DOMAIN all : all[x] # Absent} |-> all[name]]

InitLoaderVars ==
    /\ \E c1 \in Contents(Name_a_fit_gz) \cup {Absent},
          c2 \in Contents(Name_b_fit) \cup {Absent},
          c3 \in SmallContents \cup {Absent},
          c4 \in SmallContents \cup {Absent} :
           dir = MkDir(c1, c2, c3, c4)
    /\ libMissing \in BOOLEAN
    /\ lpc = "start"
    /\ outdirMade = FALSE
    /\ all_files = << >>
    /\ idx = 1
    /\ frames = << >>
    /\ log = << >>
    /\ combined = EmptyTable
    /\ raised = FALSE
    /\ written = {}

\* main() up to the loop of load_fit_dir: outdir.mkdir, glob, sorted
MainStart ==
    /\ lpc = "start"
    /\ outdirMade' = TRUE
    /\ all_files' = Sorted(Glob(dir, DotFit) \cup Glob(dir, DotFitDotGz))
    /\ frames' = << >>
    /\ idx' = 1
    /\ lpc' = "loop"
    /\ UNCHANGED << dir, libMissing, log, combined, raised, written >>

\* one pass of the loop: read_and_clean_fit(p), skip an empty table, else
\* tag it with p.stem and keep it
LoadFile ==
    /\ lpc = "loop"
    /\ idx <= Len(all_files)
    /\ LET p == all_files[idx]
           r == read_fit(p, dir[p], libMissing)
       IN  IF r.raised \/ PassRaises(r.df)
           THEN /\ raised' = TRUE
                /\ lpc' = "done"
                /\ UNCHANGED << frames, log, idx >>
           ELSE /\ \E df \in add_derived_columns(r.df) :
                      IF IsEmpty(df)
                      THEN /\ log' = log \o r.log
                                       \o << LogRecord("warning", p) >>
                           /\ frames' = frames
                      ELSE /\ log' = log \o r.log
                           /\ frames' = Append(frames, TagRunId(df, Stem(p)))
                /\ idx' = idx + 1
                /\ UNCHANGED << raised, lpc >>
    /\ UNCHANGED << dir, libMissing, outdirMade, all_files, combined,
                    written >>

\* after the loop: an empty table when nothing was kept, else the concat
LoadReturn ==
    /\ lpc = "loop"
    /\ idx > Len(all_files)
    /\ IF frames = << >>
       THEN /\ log' = Append(log, LogRecord("warning", << >>))
            /\ combined' = EmptyTable
       ELSE /\ log' = log
            /\ combined' = Concat(frames)
    /\ lpc' = "main"
    /\ UNCHANGED << dir, libMissing, outdirMade, all_files, idx, frames,
                    raised, written >>

\* main() with the table: return when it is empty, else write both files
MainSave ==
    /\ lpc = "main"
    /\ written' = SavedFiles(combined)
    /\ lpc' = "done"
    /\ UNCHANGED << dir, libMissing, outdirMade, all_files, idx, frames,
                    log, combined, raised >>

(***************************************************************************)
(* Properties of load_fit_dir and main, stated of Spec                     *)
(***************************************************************************)
\* the files load_fit_dir is to read: *.fit and *.fit.gz
Matched ==
    {name \in DOMAIN dir :
       EndsWith(name, DotFit) \/ EndsWith(name, DotFitDotGz)}

\* the file can be decoded: the library is there and the bytes are a whole
\* FIT file in the encoding the name promises
Readable(name) ==
    /\ ~libMissing
    /\ dir[name].enc = ExpectedEnc(name)
    /\ ~dir[name].truncated

\* message i of the file gives a row, and the row's timestamp (if any)
RowOf(name, i) == extract_fields_from_message(dir[name].msgs[i].rec).data
GivesRow(name, i) == ~dir[name].msgs[i].isNone /\ DOMAIN RowOf(name, i) # {}
HasTimestamp(name) ==
    \E i \in 1..Len(dir[name].msgs) :
        GivesRow(name, i) /\ "timestamp" \in DOMAIN RowOf(name, i)

\* the messages of a readable file whose rows its table keeps: all that give
\* a row, less, when the table has a timestamp column, those without a
\* parsable timestamp
KeptPos(name) ==
    {i \in 1..Len(dir[name].msgs) :
       /\ GivesRow(name, i)
       /\ HasTimestamp(name) =>
              /\ "timestamp" \in DOMAIN RowOf(name, i)
              /\ RowOf(name, i)["timestamp"].k \in {"ts", "tstr"}}

RowsFrom(df, name) == SelectSeq(df.rows, LAMBDA r : r.src = name)

StripSuffix(name, suffix) ==
    IF EndsWith(name, suffix)
    THEN SubSeq(name, 1, Len(name) - Len(suffix)) ELSE name
BaseName(name) == StripSuffix(StripSuffix(name, DotGz), DotFit)

\* C5: every row of the table returned carries the run_id of its file: the
\* base name with .fit and any .gz stripped, X for X.fit and for X.fit.gz.
C5_RunIdIsBaseName ==
    lpc \in {"main", "done"} =>
        \A i \in 1..Len(combined.rows) :
            combined.rows[i].run_id = BaseName(combined.rows[i].src)

\* what does hold of run_id: it is the name less its last suffix only
C5_RunIdIsStem ==
    lpc \in {"main", "done"} =>
        \A i \in 1..Len(combined.rows) :
            LET name == combined.rows[i].src
            IN  combined.rows[i].run_id =
                    IF EndsWith(name, DotGz) THEN StripSuffix(name, DotGz)
                    ELSE StripSuffix(name, DotFit)

\* no file contributes a table
NoContribution ==
    \A name \in Matched : ~Readable(name) \/ KeptPos(name) = {}

\* C8: when no file contributes a table, load_fit_dir returns a table of no
\* rows and no columns without raising, and main() writes neither file.
C8_NothingToWrite ==
    /\ (lpc \in {"main", "done"} /\ NoContribution) =>
           combined = EmptyTable /\ ~raised
    /\ (lpc = "done" /\ NoContribution) => written = {}

\* C8's case: files matched, one failed and one was empty, main() is through
C8_Witness ==
    /\ lpc = "done"
    /\ NoContribution
    /\ written = {}
    /\ \E bad \in Matched, empty \in Matched :
           ~Readable(bad) /\ Readable(empty) /\ dir[empty].msgs # << >>

RECURSIVE TotalRows(_)
TotalRows(fs) ==
    IF fs = << >> THEN 0 ELSE Len(Head(fs).rows) + TotalRows(Tail(fs))

PosOf(rows) == [i \in 1..Len(rows) |-> rows[i].pos]

\* C9: the table returned is the per-file tables one after the other in
\* sorted file-name order: rows of a file precede rows of any file sorting
\* later, the rows of one file keep the order its derived-column pass left,
\* and the row count is the sum of the per-file counts.
C9_ConcatInNameOrder ==
    lpc \in {"main", "done"} =>
        /\ \A i \in 1..Len(combined.rows), j \in 1..Len(combined.rows) :
               i < j => \/ combined.rows[i].src = combined.rows[j].src
                        \/ StrLess(combined.rows[i].src, combined.rows[j].src)
        /\ \A f \in 1..Len(frames) :
               PosOf(RowsFrom(combined, frames[f].rows[1].src))
                   = PosOf(frames[f].rows)
        /\ Len(combined.rows) = TotalRows(frames)

\* C9's case: three files contributed, one of them with its rows re-ordered
\* by the pass
C9_Witness ==
    /\ lpc = "done"
    /\ Len(frames) = 3
    /\ \E f \in 1..Len(frames) :
           Len(frames[f].rows) = 2
           /\ frames[f].rows[1].pos > frames[f].rows[2].pos

(***************************************************************************)
(* The three specifications                                                *)
(***************************************************************************)
\* the loader at rest on an empty directory, for the specifications that
\* do not run it
LoaderAtRest ==
    /\ dir = << >>
    /\ libMissing = FALSE
    /\ lpc = "start"
    /\ outdirMade = FALSE
    /\ all_files = << >>
    /\ idx = 1
    /\ frames = << >>
    /\ log = << >>
    /\ combined = EmptyTable
    /\ raised = FALSE
    /\ written = {}

InitExtract == InitExtractVars /\ InitDeriveVars /\ LoaderAtRest

NextExtract ==
    \/ \E m \in DataMaps : NewData(m) /\ UNCHANGED << deriveVars, loaderVars >>
    \/ \E s \in Shapes : PresentShape(s) /\ UNCHANGED << deriveVars, loaderVars >>
    \/ PresentArbitrary /\ UNCHANGED << deriveVars, loaderVars >>
    \/ Extract /\ UNCHANGED << deriveVars, loaderVars >>
    \/ NextCall /\ UNCHANGED << deriveVars, loaderVars >>

SpecExtract == InitExtract /\ [][NextExtract]_vars

InitDerive == InitExtractVars /\ InitDeriveVars /\ LoaderAtRest

NextDerive ==
    \/ DeriveInput /\ UNCHANGED << extractVars, loaderVars >>
    \/ Derive /\ UNCHANGED << extractVars, loaderVars >>

SpecDerive == InitDerive /\ [][NextDerive]_vars

Init == InitExtractVars /\ InitDeriveVars /\ InitLoaderVars

Next ==
    \/ MainStart /\ UNCHANGED << extractVars, deriveVars >>
    \/ LoadFile /\ UNCHANGED << extractVars, deriveVars >>
    \/ LoadReturn /\ UNCHANGED << extractVars, deriveVars >>
    \/ MainSave /\ UNCHANGED << extractVars, deriveVars >>

Spec == Init /\ [][Next]_vars

====
